---------------------------- MODULE Spec2Model ----------------------------
(***************************************************************************)
(* TriDance relay server (src/app.py): WebRTC signaling, the peer          *)
(* registry, the dashboard fan-out and the graceful shutdown, as one state *)
(* machine over the asyncio event loop.                                    *)
(*                                                                         *)
(* One action is one run of a callback or coroutine from the point where   *)
(* the event loop resumes it up to its next suspension (an await that      *)
(* really waits) or its end.  Awaits that return without waiting (a        *)
(* broadcast to no subscriber, pc.close() on a connection already closed,  *)
(* a send_text that raises at once on a dead connection) do not suspend    *)
(* and are part of the same action.                                        *)
(*                                                                         *)
(* Environment: the HTTP server has stopped accepting requests when it     *)
(* fires the shutdown event, so no new offer and no new websocket is       *)
(* accepted once shutdown has started; peer transports, their callbacks    *)
(* and the tasks already created keep running on the loop.                 *)
(***************************************************************************)
EXTENDS Integers, Sequences, FiniteSets, TLC

\* ---------------------------------------------------------------- bounds
MaxPeers == 2      \* offers that get as far as creating a Peer
MaxWs    == 2      \* websocket connections to /ws
MaxTasks == 2      \* tasks created on the loop (spawn and async event handlers)

PeerIds == 1..MaxPeers
WsIds   == 1..MaxWs
TaskIds == 1..MaxTasks

Absent == "absent"     \* marks a key that a payload does not have

\* ---------------------------------------------------------------- helpers
Range(s) == {s[i] : i \in DOMAIN s}

Without(s, x) == LET Keep(y) == y # x IN SelectSeq(s, Keep)

WithoutAll(s, xs) == LET Keep(y) == y \notin xs IN SelectSeq(s, Keep)

InsertAt(s, i, x) == SubSeq(s, 1, i - 1) \o <<x>> \o SubSeq(s, i, Len(s))

\* dict item assignment d[k] = v on a dict modelled as a function
Put(d, k, v) == [x \in (DOMAIN d) \cup {k} |-> IF x = k THEN v ELSE d[x]]

\* dict.get(k, default)
Get(d, k, default) == IF k \in DOMAIN d THEN d[k] ELSE default

\* dict.setdefault(k, v)
SetDefault(d, k, v) == IF k \in DOMAIN d THEN d ELSE Put(d, k, v)

EmptyDict == [x \in {} |-> Absent]

VARIABLES
    peers,              \* the registry dict, as the sequence of its keys in insertion order
    peer,               \* every Peer object ever created (index = id), registered or not
    resp,               \* outcome of the most recently finished POST /webrtc/offer
    dashboards,         \* the subscriber set, as a sequence in its iteration order
    sock,               \* per websocket: handler position and connection state
    frames,             \* per websocket: the frames written to it, in order
    waitq,              \* per websocket: coroutines waiting for a send_text to complete
    tasks,              \* every task created on the loop (index = creation order)
    background_tasks,   \* the tracked set
    sd,                 \* the shutdown handler (born: history, the tasks created
                        \* before it completed)
    published,          \* history: every event handed to broadcast, in invocation order
    log,                \* history: per websocket, every delivery attempt
    scope,              \* what the environment may do in this run (fixed by Init)
    raised              \* history: the exception that last left a channel callback

vars == <<peers, peer, resp, dashboards, sock, frames, waitq, tasks,
          background_tasks, sd, published, log, scope, raised>>


\* ------------------------------------------------- POST /webrtc/offer inputs
\* A payload is a dict; a missing key is a key outside its domain.
SdpValues   == {"v=0 valid", "garbage"}
TypeValues  == {"offer", "bogus"}
LabelValues == {"phone"}

MkPayload(sdp, type, label) ==
    LET a == IF sdp   = Absent THEN EmptyDict ELSE Put(EmptyDict, "sdp", sdp)
        b == IF type  = Absent THEN a ELSE Put(a, "type", type)
    IN  IF label = Absent THEN b ELSE Put(b, "label", label)

Payloads == { MkPayload(s, t, l) : s \in SdpValues \cup {Absent},
                                   t \in TypeValues \cup {Absent},
                                   l \in LabelValues \cup {Absent} }

\* RTCSessionDescription.__post_init__ accepts these types only
SdpTypes == {"offer", "pranswer", "answer", "rollback"}

\* setRemoteDescription parses the sdp text before its first await
SdpParses(sdp) == sdp = "v=0 valid"

\* states of pc.iceConnectionState
IceTerminal == {"failed", "closed", "disconnected"}
IceStates   == {"checking", "failed", "disconnected", "closed"}

\* class Peer, with its RTCPeerConnection (pc, ice), the position of the
\* webrtc_offer call that created it (offer) and, as history, who took it out
\* of the registry (taken): 0 for nobody yet, -1 for shutdown's peers.clear(),
\* otherwise the number of the task
NewPeer(label) ==
    [device_label |-> label, samples_received |-> 0, channel |-> "none",
     pc |-> "open", ice |-> "new", offer |-> "setRemoteDescription",
     taken |-> 0]

\* ------------------------------------------------------- telemetry frames
\* A binary message is a sequence of bytes.  A decoded float is kept as its
\* IEEE-754 bit pattern, most significant byte first (a Python float that
\* came from a 32-bit field by the bit pattern of its 32-bit form, which it
\* fits exactly); a decoded integer is boxed in a 1-tuple, so that every
\* telemetry field is a tuple and None is the empty one.
None == <<>>

Reverse(b) == [i \in 1..Len(b) |-> b[Len(b) + 1 - i]]

U16LE(b) == <<b[1] + 256 * b[2]>>

\* format "d": the eight bytes are the Python float itself
FloatLE(b) == Reverse(b)

\* a 32-bit pattern, most significant byte first, is a signalling NaN: the
\* exponent is all ones, the fraction is not zero and its top bit is clear
IsSNaN32(m) ==
    /\ m[1] % 128 = 127
    /\ m[2] >= 128
    /\ m[2] % 128 < 64
    /\ (m[2] % 128 # 0 \/ m[3] # 0 \/ m[4] # 0)

\* format "f": the four bytes are widened to a Python float (a double); the
\* IEEE-754 conversion delivers a quiet NaN for a signalling one, and every
\* other value unchanged
Float32LE(b) ==
    LET m == Reverse(b) IN
    IF IsSNaN32(m) THEN <<m[1], m[2] + 64, m[3], m[4]>> ELSE m

FRAME_LEN == 36

\* the frame read with the big-endian format ">BBHdffffff"
unpack_big_endian(b) ==
    [version |-> <<b[1]>>, flags |-> <<b[2]>>,
     seq |-> <<256 * b[3] + b[4]>>,
     ts  |-> SubSeq(b, 5, 12),
     ax  |-> SubSeq(b, 13, 16), ay |-> SubSeq(b, 17, 20),
     az  |-> SubSeq(b, 21, 24), gx |-> SubSeq(b, 25, 28),
     gy  |-> SubSeq(b, 29, 32), gz |-> SubSeq(b, 33, 36)]

\* struct.unpack("<BBHdffffff", message[:36])
unpack(b) ==
    [version |-> <<b[1]>>, flags |-> <<b[2]>>,
     seq |-> U16LE(SubSeq(b, 3, 4)),
     ts  |-> FloatLE(SubSeq(b, 5, 12)),
     ax  |-> Float32LE(SubSeq(b, 13, 16)), ay |-> Float32LE(SubSeq(b, 17, 20)),
     az  |-> Float32LE(SubSeq(b, 21, 24)), gx |-> Float32LE(SubSeq(b, 25, 28)),
     gy  |-> Float32LE(SubSeq(b, 29, 32)), gz |-> Float32LE(SubSeq(b, 33, 36))]

NoFields ==
    [version |-> None, flags |-> None, seq |-> None, ts |-> None,
     ax |-> None, ay |-> None, az |-> None, gx |-> None, gy |-> None, gz |-> None]

\* a decoder that fills a short message up with zero bytes and parses it
decode_padded(message) ==
    unpack([i \in 1..FRAME_LEN |-> IF i <= Len(message) THEN message[i] ELSE 0])

\* lines 211-221
decode(message) ==
    IF Len(message) >= FRAME_LEN THEN unpack(SubSeq(message, 1, FRAME_LEN)) ELSE NoFields

\* version=1 flags=0 seq=7 ts=1000.5 ax=0.1 ay=0.2 az=9.8 gx=gy=gz=0
SampleFrame ==
    <<1, 0, 7, 0,   0, 0, 0, 0, 0, 68, 143, 64,
      205, 204, 204, 61,   205, 204, 76, 62,   205, 204, 28, 65,
      0, 0, 0, 0,   0, 0, 0, 0,   0, 0, 0, 0>>

ShortFrame == <<1, 0, 7>>

\* no byte at all, and one byte less than a frame
EmptyFrame == <<>>

AlmostFrame == SubSeq(SampleFrame, 1, FRAME_LEN - 1)

\* a frame followed by two more bytes
LongFrame == SampleFrame \o <<9, 9>>

\* seq=263, and in ax the signalling NaN 0x7F800001
NaNFrame ==
    <<1, 0, 7, 1>> \o SubSeq(SampleFrame, 5, 12) \o <<1, 0, 128, 127>>
        \o SubSeq(SampleFrame, 17, 36)

BinaryMessages == {SampleFrame, ShortFrame, EmptyFrame, AlmostFrame, LongFrame, NaNFrame}

\* Text messages, and json.loads on each of them: the decoded value or the
\* fact that it raises.
TextMessages == {"hello", "{\"kind\":\"ping\"}", "{\"label\":\"spoof\"}", "[1]"}

JsonLoads(text) ==
    CASE text = "{\"kind\":\"ping\"}"   -> [ok |-> TRUE, dict |-> TRUE, obj |-> [kind |-> "ping"]]
      [] text = "{\"label\":\"spoof\"}" -> [ok |-> TRUE, dict |-> TRUE, obj |-> [label |-> "spoof"]]
      [] text = "[1]"                   -> [ok |-> TRUE, dict |-> FALSE, obj |-> <<1>>]
      [] OTHER                          -> [ok |-> FALSE, dict |-> FALSE, obj |-> None]

\* ------------------------------------------------------- scopes
Messages == [bin : {TRUE}, data : BinaryMessages] \cup [bin : {FALSE}, data : TextMessages]

ValidOffer == MkPayload("v=0 valid", "offer", "phone")
Sample     == [bin |-> TRUE, data |-> SampleFrame]

\* The runs explored.  Each run has a budget of peers, websockets and tasks
\* and names the sets its inputs are drawn from; the budgets trade breadth of
\* one kind for breadth of another.
Scopes ==
    { [peers |-> MaxPeers, ws |-> 0, tasks |-> 0,
       payloads |-> "all", messages |-> "none", ices |-> "none"],
      [peers |-> MaxPeers, ws |-> 1, tasks |-> 1,
       payloads |-> "valid", messages |-> "sample", ices |-> "failed"],
      [peers |-> 1, ws |-> MaxWs, tasks |-> MaxTasks,
       payloads |-> "valid", messages |-> "sample", ices |-> "none"],
      [peers |-> 1, ws |-> 1, tasks |-> MaxTasks,
       payloads |-> "valid", messages |-> "all", ices |-> "all"] }

PayloadsOf(sc) == IF sc.payloads = "all" THEN Payloads ELSE {ValidOffer}

MessagesOf(sc) ==
    CASE sc.messages = "all"    -> Messages
      [] sc.messages = "sample" -> {Sample}
      [] OTHER                  -> {}

IcesOf(sc) ==
    CASE sc.ices = "all"    -> IceStates
      [] sc.ices = "failed" -> {"failed", "closed"}
      [] OTHER              -> {}

\* ---------------------------------------------------------------- state
Init ==
    /\ peers = <<>>
    /\ peer = <<>>
    /\ resp = "none"
    /\ dashboards = <<>>
    /\ sock = [w \in WsIds |-> [pc |-> "idle", conn |-> "new"]]
    /\ frames = [w \in WsIds |-> <<>>]
    /\ waitq = [w \in WsIds |-> <<>>]
    /\ tasks = <<>>
    /\ background_tasks = {}
    /\ sd = [pc |-> "idle", todo |-> <<>>, gathered |-> {}, born |-> 0]
    /\ published = <<>>
    /\ log = [w \in WsIds |-> <<>>]
    /\ scope \in Scopes
    /\ raised = "none"

\* ------------------------------------------------------- webrtc_offer
\* Lines 191-256 up to the first await: the key lookups, the creation and
\* registration of the Peer, the construction of the session description and
\* the synchronous start of setRemoteDescription.
webrtc_offer(payload) ==
    /\ sd.pc = "idle"
    /\ UNCHANGED <<dashboards, sock, frames, waitq, tasks, background_tasks, sd,
                   published, log, scope, raised>>
    /\ IF "sdp" \notin DOMAIN payload \/ "type" \notin DOMAIN payload
       THEN /\ resp' = "KeyError"
            /\ UNCHANGED <<peers, peer>>
       ELSE /\ Len(peer) < scope.peers
            /\ LET peer_id == Len(peer) + 1
                   label   == Get(payload, "label", "unknown")
                   fate    == IF payload["type"] \notin SdpTypes THEN "ValueError"
                              ELSE IF ~SdpParses(payload["sdp"]) THEN "SdpError"
                              ELSE "pending"
               IN  /\ peers' = Append(peers, peer_id)
                   /\ peer' = Append(peer,
                          [NewPeer(label) EXCEPT !.offer =
                              IF fate = "pending" THEN "setRemoteDescription"
                              ELSE IF fate = "ValueError" THEN "rejected"
                              ELSE "raised"])
                   /\ resp' = IF fate = "pending" THEN resp ELSE fate

NextStage(stage) ==
    CASE stage = "setRemoteDescription" -> "createAnswer"
      [] stage = "createAnswer"         -> "setLocalDescription"
      [] stage = "setLocalDescription"  -> "returned"

\* Lines 256-260: one of the three negotiation awaits completes or raises.
webrtc_offer_resume(p) ==
    /\ p \in DOMAIN peer
    /\ peer[p].offer \in {"setRemoteDescription", "createAnswer", "setLocalDescription"}
    /\ UNCHANGED <<peers, dashboards, sock, frames, waitq, tasks, background_tasks,
                   sd, published, log, scope, raised>>
    /\ \/ /\ peer[p].pc = "open"
          /\ peer' = [peer EXCEPT ![p].offer = NextStage(@)]
          /\ resp' = IF peer[p].offer = "setLocalDescription" THEN "answer" ELSE resp
       \/ /\ peer' = [peer EXCEPT ![p].offer = "raised"]
          /\ resp' = "NegotiationError"


\* ------------------------------------------------------- tasks
\* A task is a coroutine on the loop: broadcast(msg) and remove_peer(id) are
\* created by spawn and tracked; on_ice_state is an async event handler, which
\* the event emitter schedules on the loop itself, outside spawn.
\*   pc   : "start" (created, not yet run), "send" (inside broadcast, waiting
\*          for send_text to Head(todo)), "close" (waiting for pc.close()),
\*          "done", "cancelled"
\*   n    : index in published of the event its current broadcast delivers
\*   state: history, for on_ice_state: the state whose change scheduled it
NewTask(kind, p, n) ==
    [kind |-> kind, peer |-> p, pc |-> "start", n |-> n, todo |-> <<>>,
     stale |-> {}, cancel |-> FALSE, state |-> "none"]

\* the part of the state that tasks read and write
S == [peers |-> peers, peer |-> peer, dashboards |-> dashboards, frames |-> frames,
      waitq |-> waitq, tasks |-> tasks, background_tasks |-> background_tasks,
      published |-> published, log |-> log]

Commit(s) ==
    /\ peers' = s.peers
    /\ peer' = s.peer
    /\ dashboards' = s.dashboards
    /\ frames' = s.frames
    /\ waitq' = s.waitq
    /\ tasks' = s.tasks
    /\ background_tasks' = s.background_tasks
    /\ published' = s.published
    /\ log' = s.log

\* lines 53-58: create_task, background_tasks.add
spawn(s, kind, p, n) ==
    [s EXCEPT !.tasks = Append(@, NewTask(kind, p, n)),
              !.background_tasks = @ \cup {Len(s.tasks) + 1}]

\* a publish: the event a call of broadcast(msg) is made for
Publish(s, msg) == [s EXCEPT !.published = Append(@, msg)]

\* a sample event that carries the counter as it was before the message
SampleEventBeforeCount(pr, p, message) ==
    LET d == decode(message) IN
    [kind |-> "sample", peerId |-> p, label |-> pr.device_label,
     count |-> pr.samples_received - 1,
     seq |-> d.seq, ts |-> d.ts, ax |-> d.ax, ay |-> d.ay, az |-> d.az,
     gx |-> d.gx, gy |-> d.gy, gz |-> d.gz]

\* lines 207-233: the event built from a binary message
SampleEvent(pr, p, message) ==
    LET d == decode(message) IN
    [kind |-> "sample", peerId |-> p, label |-> pr.device_label,
     count |-> pr.samples_received,
     seq |-> d.seq, ts |-> d.ts, ax |-> d.ax, ay |-> d.ay, az |-> d.az,
     gx |-> d.gx, gy |-> d.gy, gz |-> d.gz]

\* lines 236-242: the event built from a text message that decodes to obj
TextEvent(pr, p, obj) ==
    LET a == Put(obj, "kind", Get(obj, "kind", "msg"))
        b == Put(a, "peerId", p)
    IN  SetDefault(b, "label", pr.device_label)

\* lines 201-203
on_datachannel(p) ==
    /\ p \in DOMAIN peer
    /\ peer[p].offer = "returned"
    /\ peer[p].pc = "open"
    /\ peer[p].channel = "none"
    /\ peer' = [peer EXCEPT ![p].channel = "open"]
    /\ UNCHANGED <<peers, resp, dashboards, sock, frames, waitq, tasks,
                   background_tasks, sd, published, log, scope, raised>>

\* lines 205-243
on_message(p, message) ==
    /\ p \in DOMAIN peer
    /\ peer[p].channel = "open"
    /\ peer[p].pc = "open"
    /\ Len(tasks) < scope.tasks
    /\ UNCHANGED <<resp, sock, sd, scope>>
    /\ IF message.bin
       THEN LET s1 == [S EXCEPT !.peer[p].samples_received = @ + 1]
                ev == SampleEvent(s1.peer[p], p, message.data)
            IN  /\ Commit(spawn(Publish(s1, ev), "broadcast", p, Len(published) + 1))
                /\ UNCHANGED raised
       ELSE LET j   == JsonLoads(message.data)
                obj == IF j.ok THEN j.obj ELSE [text |-> message.data]
            IN  IF j.ok /\ ~j.dict
                THEN \* line 240: obj.get raises on a decoded value that is
                     \* not a dict, and nothing is published
                     /\ Commit(S)
                     /\ raised' = "AttributeError"
                ELSE /\ Commit(spawn(Publish(S, TextEvent(peer[p], p, obj)),
                                     "broadcast", p, Len(published) + 1))
                     /\ UNCHANGED raised

\* lines 245-247
on_close(p) ==
    /\ p \in DOMAIN peer
    /\ peer[p].channel = "open"
    /\ Len(tasks) < scope.tasks
    /\ UNCHANGED <<resp, sock, sd, scope, raised>>
    /\ Commit(spawn([S EXCEPT !.peer[p].channel = "closed"], "remove_peer", p, 0))

\* The connection's ICE state changes and the emitter schedules on_ice_state
\* (lines 249-250).  ICE runs once the local description is being set; closing
\* the connection ends in the state "closed".
ice_state_change(p, state) ==
    /\ p \in DOMAIN peer
    /\ Len(tasks) < scope.tasks
    /\ state # peer[p].ice
    /\ \/ /\ state # "closed"
          /\ peer[p].pc = "open"
          /\ peer[p].offer \in {"setLocalDescription", "returned"}
       \/ /\ state = "closed"
          /\ peer[p].pc = "closing"
    /\ peer' = [peer EXCEPT ![p].ice = state]
    /\ tasks' = Append(tasks, [NewTask("on_ice_state", p, 0) EXCEPT !.state = state])
    /\ UNCHANGED <<peers, resp, dashboards, sock, frames, waitq, background_tasks,
                   sd, published, log, scope, raised>>


\* ------------------------------------------------------- broadcast, remove_peer
\* A delivery attempt is logged as "sent" (send_text wrote the frame and the
\* caller waits for it to complete), "refused" (send_text raised at once: the
\* connection is not open) or, after a "sent", "lost" (the wait ended with an
\* exception: the connection went away meanwhile).  For a failure, at is the
\* number of publishes made before it; n is the publish, by its index in
\* published.  "due" is logged for every subscriber a delivery loop starts
\* with and "pruned" for every one its second pass discards.
LogEntry(s, n, what) ==
    [n |-> n, what |-> what,
     at |-> IF what \in {"sent", "due"} THEN 0 ELSE Len(s.published)]

\* the task ends: the done callback discards it from the tracked set
Finish(s, t, how) ==
    [s EXCEPT !.tasks[t].pc = how, !.background_tasks = @ \ {t}]

\* a second pass that discards nothing
PruneNothing(dash, stale) == dash

\* lines 290-291: the second pass discards the stale connections, logged for
\* each of them as "pruned"
Prune(dash, stale) == WithoutAll(dash, stale)

SecondPass(s, t) ==
    LET tk == s.tasks[t] IN
    [s EXCEPT !.dashboards = Prune(@, tk.stale),
              !.log = [ws \in WsIds |->
                         IF ws \in tk.stale
                         THEN Append(s.log[ws], [n |-> tk.n, what |-> "pruned",
                                                 at |-> Len(s.published)])
                         ELSE s.log[ws]]]

RECURSIVE Deliver(_, _)
RECURSIVE AfterBroadcast(_, _)

\* lines 284-285: the loop starts over a copy of the set; every subscriber in
\* the copy is logged as "due" for the publish
StartLoop(s, t) ==
    [s EXCEPT !.tasks[t].todo = s.dashboards,
              !.tasks[t].stale = {},
              !.log = [ws \in WsIds |->
                         IF ws \in Range(s.dashboards)
                         THEN Append(s.log[ws], LogEntry(s, s.tasks[t].n, "due"))
                         ELSE s.log[ws]]]

\* a delivery loop that ends at the first failed delivery
DeliverUntilFailure(s, t) ==
    LET tk == s.tasks[t] IN
    IF tk.todo = <<>>
    THEN AfterBroadcast(SecondPass(s, t), t)
    ELSE LET ws == Head(tk.todo) IN
         IF sock[ws].conn = "open"
         THEN [s EXCEPT !.frames[ws] = Append(@, s.published[tk.n]),
                        !.log[ws] = Append(@, LogEntry(s, tk.n, "sent")),
                        !.waitq[ws] = Append(@, t),
                        !.tasks[t].pc = "send"]
         ELSE AfterBroadcast(
                  SecondPass([s EXCEPT !.log[ws] = Append(@, LogEntry(s, tk.n, "refused")),
                                       !.tasks[t].stale = @ \cup {ws},
                                       !.tasks[t].todo = <<>>], t), t)

\* lines 283-285: broadcast(msg) is called for the event published last
Broadcast(s, t) ==
    Deliver(StartLoop([s EXCEPT !.tasks[t].n = Len(s.published)], t), t)

\* lines 285-291, from the call of send_text for the next subscriber up to
\* the next suspension, or through the second pass when the loop is over
Deliver(s, t) ==
    LET tk == s.tasks[t] IN
    IF tk.todo = <<>>
    THEN AfterBroadcast(SecondPass(s, t), t)
    ELSE LET ws == Head(tk.todo) IN
         IF sock[ws].conn = "open"
         THEN [s EXCEPT !.frames[ws] = Append(@, s.published[tk.n]),
                        !.log[ws] = Append(@, LogEntry(s, tk.n, "sent")),
                        !.waitq[ws] = Append(@, t),
                        !.tasks[t].pc = "send"]
         ELSE Deliver([s EXCEPT !.log[ws] = Append(@, LogEntry(s, tk.n, "refused")),
                                !.tasks[t].stale = @ \cup {ws},
                                !.tasks[t].todo = Tail(@)], t)

\* remove_peer reading the registry with peers.get instead of peers.pop
RemovePeerNoPop(s, t) ==
    LET p == s.tasks[t].peer IN
    IF p \notin Range(s.peers)
    THEN Finish(s, t, "done")
    ELSE LET s1 == [s EXCEPT !.peer[p].taken = t] IN
         IF s1.peer[p].pc = "open"
         THEN [s1 EXCEPT !.peer[p].pc = "closing", !.tasks[t].pc = "close"]
         ELSE Broadcast(Publish(s1, [kind |-> "left", peerId |-> p]), t)

\* lines 263-275 from the pop to the await of pc.close(); closing a connection
\* that is already closing or closed returns at once
RemovePeer(s, t) ==
    LET p == s.tasks[t].peer IN
    IF p \notin Range(s.peers)
    THEN Finish(s, t, "done")
    ELSE LET s1 == [s EXCEPT !.peers = Without(@, p), !.peer[p].taken = t] IN
         IF s1.peer[p].pc = "open"
         THEN [s1 EXCEPT !.peer[p].pc = "closing", !.tasks[t].pc = "close"]
         ELSE Broadcast(Publish(s1, [kind |-> "left", peerId |-> p]), t)

\* what follows the return of broadcast in the coroutine of task t
AfterBroadcast(s, t) ==
    LET tk == s.tasks[t] IN
    IF tk.kind = "on_ice_state" /\ s.published[tk.n].kind = "ice"
    THEN \* lines 252-253
         IF s.peer[tk.peer].ice \in IceTerminal
         THEN RemovePeer(s, t)
         ELSE Finish(s, t, "done")
    ELSE Finish(s, t, "done")

\* The first run of a task.  Tasks start in the order of their creation.
\* A task cancelled before its first run never runs.
task_start(t) ==
    /\ t \in DOMAIN tasks
    /\ tasks[t].pc = "start"
    /\ \A u \in 1..(t - 1) : tasks[u].pc # "start"
    /\ UNCHANGED <<resp, sock, sd, scope, raised>>
    /\ LET tk == tasks[t] IN
       IF tk.cancel
       THEN Commit(Finish(S, t, "cancelled"))
       ELSE CASE tk.kind = "broadcast"    -> Commit(Deliver(StartLoop(S, t), t))
              [] tk.kind = "remove_peer"  -> Commit(RemovePeer(S, t))
              [] tk.kind = "on_ice_state" ->
                    \* line 251
                    Commit(Broadcast(Publish(S, [kind |-> "ice", peerId |-> tk.peer,
                                                 state |-> peer[tk.peer].ice]), t))

\* A send_text that task t waits for completes (lines 287-289); sends on one
\* connection complete in the order they were made.
task_sent(t) ==
    /\ t \in DOMAIN tasks
    /\ tasks[t].pc = "send"
    /\ ~tasks[t].cancel
    /\ UNCHANGED <<resp, sock, sd, scope, raised>>
    /\ LET ws == Head(tasks[t].todo) IN
       /\ Head(waitq[ws]) = t
       /\ LET s1 == [S EXCEPT !.waitq[ws] = Tail(@), !.tasks[t].todo = Tail(@)]
              s2 == IF sock[ws].conn = "open" THEN s1
                    ELSE [s1 EXCEPT !.log[ws] = Append(@, LogEntry(S, tasks[t].n, "lost")),
                                    !.tasks[t].stale = @ \cup {ws}]
          IN  Commit(Deliver(s2, t))

\* a remove_peer without the except clause of lines 271-272 and without the
\* finally clause: an exception of pc.close() ends the coroutine
task_closed_propagating(t) ==
    /\ t \in DOMAIN tasks
    /\ tasks[t].pc = "close"
    /\ ~tasks[t].cancel
    /\ UNCHANGED <<resp, sock, sd, scope, raised>>
    /\ \E how \in {"closed", "aborted"} :
         LET p == tasks[t].peer
             s1 == [S EXCEPT !.peer[p].pc = how]
         IN  IF how = "aborted"
             THEN Commit(Finish(s1, t, "done"))
             ELSE Commit(Broadcast(Publish(s1, [kind |-> "left", peerId |-> p]), t))

\* pc.close() that task t waits for (line 268) completes, or raises and
\* leaves the transport as it is.
task_closed(t) ==
    /\ t \in DOMAIN tasks
    /\ tasks[t].pc = "close"
    /\ ~tasks[t].cancel
    /\ UNCHANGED <<resp, sock, sd, scope, raised>>
    /\ \E how \in {"closed", "aborted"} :
         LET p == tasks[t].peer
             s1 == [S EXCEPT !.peer[p].pc = how]
         IN  Commit(Broadcast(Publish(s1, [kind |-> "left", peerId |-> p]), t))

\* CancelledError is thrown into a suspended task that shutdown has cancelled.
\*   broadcast task: neither except clause of lines 286-289 catches it
\*   remove_peer at pc.close(): lines 269-270 and then the finally clause
\*   remove_peer inside the broadcast of the finally clause: lines 276-277
task_cancelled(t) ==
    /\ t \in DOMAIN tasks
    /\ tasks[t].pc \in {"send", "close"}
    /\ tasks[t].cancel
    /\ UNCHANGED <<resp, sock, sd, scope, raised>>
    /\ LET tk == tasks[t]
           s0 == [S EXCEPT !.tasks[t].cancel = FALSE]
       IN  IF tk.pc = "send"
           THEN LET s1 == [s0 EXCEPT !.waitq[Head(tk.todo)] = Without(@, t)] IN
                Commit(Finish(s1, t, IF tk.kind = "broadcast" THEN "cancelled" ELSE "done"))
           ELSE \E how \in {"closed", "aborted"} :
                  LET s1 == [s0 EXCEPT !.peer[tk.peer].pc = how] IN
                  Commit(Broadcast(Publish(s1, [kind |-> "left", peerId |-> tk.peer]), t))


\* ------------------------------------------------------- ws_dashboard
\* In a connection's queue of pending sends, tasks stand by their number and
\* the connection's own handler, waiting for its snapshot send, by 0.

\* a snapshot built from every Peer object, registered or not
snapshot_of_all(s) ==
    [kind |-> "snapshot",
     peers |-> [i \in 1..Len(s.peer) |->
                  [peerId |-> i,
                   label  |-> s.peer[i].device_label,
                   count  |-> s.peer[i].samples_received]]]

\* lines 299-307
snapshot(s) ==
    [kind |-> "snapshot",
     peers |-> [i \in 1..Len(s.peers) |->
                  [peerId |-> s.peers[i],
                   label  |-> s.peer[s.peers[i]].device_label,
                   count  |-> s.peer[s.peers[i]].samples_received]]]

\* a handler that joins the set and enters its receive loop without sending
\* the snapshot
ws_dashboard_without_snapshot(ws) ==
    /\ sd.pc = "idle"
    /\ ws <= scope.ws
    /\ sock[ws].pc = "idle"
    /\ \A v \in 1..(ws - 1) : sock[v].pc # "idle"
    /\ sock' = [sock EXCEPT ![ws] = [pc |-> "receive", conn |-> "open"]]
    /\ \E i \in 1..(Len(dashboards) + 1) : dashboards' = InsertAt(dashboards, i, ws)
    /\ UNCHANGED <<peers, peer, resp, frames, waitq, tasks, background_tasks, sd,
                   published, log, scope, raised>>

\* lines 295-298: a client connects; nothing of the state is touched before
\* ws.accept() returns, so the handler is taken from there: the connection
\* joins the set (at any place of its iteration order) and send_text is called
\* with the snapshot.  Connections are numbered in the order they arrive.
ws_dashboard(ws) ==
    /\ sd.pc = "idle"
    /\ ws <= scope.ws
    /\ sock[ws].pc = "idle"
    /\ \A v \in 1..(ws - 1) : sock[v].pc # "idle"
    /\ sock' = [sock EXCEPT ![ws] = [pc |-> "snapshot", conn |-> "open"]]
    /\ \E i \in 1..(Len(dashboards) + 1) : dashboards' = InsertAt(dashboards, i, ws)
    /\ frames' = [frames EXCEPT ![ws] = Append(@, snapshot(S))]
    /\ waitq' = [waitq EXCEPT ![ws] = Append(@, 0)]
    /\ UNCHANGED <<peers, peer, resp, tasks, background_tasks, sd, published, log, scope, raised>>

\* line 298 completes: the handler enters its receive loop, or the send raises
\* and the handler ends there, outside the try of lines 309-315
ws_snapshot_sent(ws) ==
    /\ sock[ws].pc = "snapshot"
    /\ waitq[ws] # <<>> /\ Head(waitq[ws]) = 0
    /\ waitq' = [waitq EXCEPT ![ws] = Tail(@)]
    /\ sock' = [sock EXCEPT ![ws].pc = IF sock[ws].conn = "open" THEN "receive" ELSE "ended"]
    /\ UNCHANGED <<peers, peer, resp, dashboards, frames, tasks, background_tasks,
                   sd, published, log, scope, raised>>

\* the client of an open connection disconnects
client_gone(ws) ==
    /\ sock[ws].conn = "open"
    /\ sock' = [sock EXCEPT ![ws].conn = "gone"]
    /\ UNCHANGED <<peers, peer, resp, dashboards, frames, waitq, tasks,
                   background_tasks, sd, published, log, scope, raised>>

\* a handler whose except clauses leave the subscriber set alone
ws_receive_raised_no_discard(ws) ==
    /\ sock[ws].pc = "receive"
    /\ sock[ws].conn # "open"
    /\ sock' = [sock EXCEPT ![ws].pc = "ended"]
    /\ UNCHANGED <<peers, peer, resp, dashboards, frames, waitq, tasks,
                   background_tasks, sd, published, log, scope, raised>>

\* lines 311-315: receive_text raises on a connection that is not open
ws_receive_raised(ws) ==
    /\ sock[ws].pc = "receive"
    /\ sock[ws].conn # "open"
    /\ sock' = [sock EXCEPT ![ws].pc = "ended"]
    /\ dashboards' = Without(dashboards, ws)
    /\ UNCHANGED <<peers, peer, resp, frames, waitq, tasks, background_tasks,
                   sd, published, log, scope, raised>>

\* ------------------------------------------------------- shutdown
\* the part of the state that shutdown reads and writes
U == [peers |-> peers, peer |-> peer, dashboards |-> dashboards, sock |-> sock,
      tasks |-> tasks, sd |-> sd]

CommitU(u) ==
    /\ peers' = u.peers
    /\ peer' = u.peer
    /\ dashboards' = u.dashboards
    /\ sock' = u.sock
    /\ tasks' = u.tasks
    /\ sd' = u.sd

\* lines 339-342: cancel every tracked task, then gather them if there are any
CancelTasks(u) ==
    LET u1 == [u EXCEPT !.tasks = [t \in DOMAIN u.tasks |->
                   IF t \in background_tasks THEN [u.tasks[t] EXCEPT !.cancel = TRUE]
                   ELSE u.tasks[t]]]
    IN  IF background_tasks = {}
        THEN [u1 EXCEPT !.sd = [pc |-> "done", todo |-> <<>>, gathered |-> {},
                                born |-> Len(u.tasks)]]
        ELSE [u1 EXCEPT !.sd = [pc |-> "gather", todo |-> <<>>,
                                gathered |-> background_tasks, born |-> 0]]

\* lines 330-336 from the call of ws.close() for the next connection; close
\* raises at once on a connection that is not open
RECURSIVE CloseDashboards(_)
CloseDashboards(u) ==
    IF u.sd.todo = <<>>
    THEN CancelTasks(u)
    ELSE LET ws == Head(u.sd.todo) IN
         IF u.sock[ws].conn = "open"
         THEN [u EXCEPT !.sock[ws].conn = "closed", !.sd.pc = "dashboards"]
         ELSE CloseDashboards([u EXCEPT !.dashboards = Without(@, ws),
                                        !.sd.todo = Tail(@)])

\* lines 322-327 from the call of pc.close() for the next peer
RECURSIVE ClosePeers(_)
ClosePeers(u) ==
    IF u.sd.todo = <<>>
    THEN CloseDashboards(
             [u EXCEPT !.peers = <<>>,
                       !.peer = [p \in DOMAIN u.peer |->
                                   IF p \in Range(u.peers)
                                   THEN [u.peer[p] EXCEPT !.taken = -1]
                                   ELSE u.peer[p]],
                       !.sd.todo = u.dashboards])
    ELSE LET p == Head(u.sd.todo) IN
         IF u.peer[p].pc = "open"
         THEN [u EXCEPT !.peer[p].pc = "closing", !.sd.pc = "peers"]
         ELSE ClosePeers([u EXCEPT !.sd.todo = Tail(@)])

\* line 320: the server fires the shutdown event, once
shutdown ==
    /\ sd.pc = "idle"
    /\ CommitU(ClosePeers([U EXCEPT !.sd.todo = peers]))
    /\ UNCHANGED <<resp, frames, waitq, background_tasks, published, log, scope, raised>>

\* line 324 completes or raises
shutdown_peer_closed ==
    /\ sd.pc = "peers"
    /\ \E how \in {"closed", "aborted"} :
         CommitU(ClosePeers([U EXCEPT !.peer[Head(sd.todo)].pc = how,
                                      !.sd.todo = Tail(@)]))
    /\ UNCHANGED <<resp, frames, waitq, background_tasks, published, log, scope, raised>>

\* line 332 completes; line 336
shutdown_ws_closed ==
    /\ sd.pc = "dashboards"
    /\ CommitU(CloseDashboards([U EXCEPT !.dashboards = Without(@, Head(sd.todo)),
                                         !.sd.todo = Tail(@)]))
    /\ UNCHANGED <<resp, frames, waitq, background_tasks, published, log, scope, raised>>

\* line 342 returns: every gathered task has ended
shutdown_gathered ==
    /\ sd.pc = "gather"
    /\ \A t \in sd.gathered : tasks[t].pc \in {"done", "cancelled"}
    /\ sd' = [sd EXCEPT !.pc = "done", !.born = Len(tasks)]
    /\ UNCHANGED <<peers, peer, resp, dashboards, sock, frames, waitq, tasks,
                   background_tasks, published, log, scope, raised>>

\* ------------------------------------------------------- specification
Next ==
    \/ \E payload \in PayloadsOf(scope) : webrtc_offer(payload)
    \/ \E p \in PeerIds : webrtc_offer_resume(p)
    \/ \E p \in PeerIds : on_datachannel(p)
    \/ \E p \in PeerIds, m \in MessagesOf(scope) : on_message(p, m)
    \/ \E p \in PeerIds : on_close(p)
    \/ \E p \in PeerIds, st \in IcesOf(scope) : ice_state_change(p, st)
    \/ \E t \in TaskIds : task_start(t)
    \/ \E t \in TaskIds : task_sent(t)
    \/ \E t \in TaskIds : task_closed(t)
    \/ \E t \in TaskIds : task_cancelled(t)
    \/ \E ws \in WsIds : ws_dashboard(ws)
    \/ \E ws \in WsIds : ws_snapshot_sent(ws)
    \/ \E ws \in WsIds : client_gone(ws)
    \/ \E ws \in WsIds : ws_receive_raised(ws)
    \/ shutdown
    \/ shutdown_peer_closed
    \/ shutdown_ws_closed
    \/ shutdown_gathered

Spec == Init /\ [][Next]_vars


\* ======================================================= claims
\* the "left" events published for peer p
Lefts(p) == {i \in DOMAIN published :
                published[i].kind = "left" /\ published[i].peerId = p}

\* a task that makes removal requests: remove_peer itself, or on_ice_state,
\* which calls it
Removes(t) == tasks[t].kind \in {"remove_peer", "on_ice_state"}

\* this step is a run of task t
Ran(t) == tasks'[t].pc # tasks[t].pc \/ tasks'[t].todo # tasks[t].todo

C1_AtMostOneLeft ==
    \A p \in DOMAIN peer :
        /\ Cardinality(Lefts(p)) <= 1
        /\ Lefts(p) # {} => peer[p].taken \in DOMAIN tasks
        /\ (peer[p].taken \in DOMAIN tasks /\ tasks[peer[p].taken].pc = "done")
               => Cardinality(Lefts(p)) = 1

C1_AbsentIsNoOp ==
    \A t \in DOMAIN tasks :
        LET p == tasks[t].peer IN
        (/\ Removes(t)
         /\ Ran(t)
         /\ p \notin Range(peers)
         /\ peer[p].taken # t)
        => /\ \A i \in DOMAIN published' :
                  i > Len(published) => published'[i].kind # "left"
           /\ peer'[p].pc = peer[p].pc
           /\ peers' = peers

C2_AllClosedAfterShutdown ==
    sd.pc = "done" =>
        /\ peers = <<>>
        /\ dashboards = <<>>
        /\ \A p \in DOMAIN peer : peer[p].pc \in {"closed", "aborted"}
        /\ \A ws \in WsIds : sock[ws].conn # "open"

\* -------------------------------------------------------------------------
\* C3 as stated: once shutdown has completed, every task created before it
\* completed has ended, completed or cancelled.
C3_NoOrphanAfterShutdown ==
    sd.pc = "done" =>
        \A t \in 1..sd.born : tasks[t].pc \in {"done", "cancelled"}

\* -------------------------------------------------------------------------
\* C4 as stated: when one of the negotiation awaits of webrtc_offer has
\* raised, the peer that the request created is not in the registry when the
\* failure reaches the caller.
C4_FailedOfferNotRegistered ==
    [][\A p \in DOMAIN peer' :
          (/\ resp' \in {"SdpError", "NegotiationError"}
           /\ peer'[p].offer = "raised"
           /\ (p \notin DOMAIN peer \/ peer[p].offer # "raised"))
          => p \notin Range(peers')]_vars

\* -------------------------------------------------------------------------
\* C5 as stated: a request whose sdp or type is missing or malformed leaves
\* the registry, the peers, the subscriber set and the tracked set as they
\* were.
Malformed(payload) ==
    \/ "sdp" \notin DOMAIN payload
    \/ "type" \notin DOMAIN payload
    \/ payload["type"] \notin SdpTypes
    \/ ~SdpParses(payload["sdp"])

C5_MalformedOfferNoEffect ==
    [][\A payload \in Payloads :
          (Malformed(payload) /\ webrtc_offer(payload))
          => UNCHANGED <<peers, peer, dashboards, background_tasks, tasks>>]_vars


\* -------------------------------------------------------------------------
\* C6: on every subscriber connection the first frame written is the
\* snapshot, whatever broadcasts run while it subscribes.
C6_SnapshotFirst ==
    \A ws \in WsIds : frames[ws] # <<>> => frames[ws][1].kind = "snapshot"

\* a connection got its snapshot and then a sample that the snapshot already
\* counts: the sample was published before the connection subscribed and
\* delivered after
C6_Witness ==
    \E ws \in WsIds :
        /\ Len(frames[ws]) >= 2
        /\ frames[ws][1].kind = "snapshot"
        /\ frames[ws][2].kind = "sample"
        /\ \E i \in DOMAIN frames[ws][1].peers :
              /\ frames[ws][1].peers[i].peerId = frames[ws][2].peerId
              /\ frames[ws][1].peers[i].count >= frames[ws][2].count

\* -------------------------------------------------------------------------
\* C7: the snapshot written to a new subscriber lists exactly the peers in
\* the registry at the step that adds the subscriber to the set, in registry
\* order, each with its id, label and samples_received of that moment; no
\* later step changes that frame.
RegistryNow ==
    [i \in 1..Len(peers) |->
        [peerId |-> peers[i],
         label  |-> peer[peers[i]].device_label,
         count  |-> peer[peers[i]].samples_received]]

C7_SnapshotOfInstant ==
    [][\A ws \in WsIds :
          /\ (ws \notin Range(dashboards) /\ ws \in Range(dashboards'))
                => frames'[ws] = <<[kind |-> "snapshot", peers |-> RegistryNow]>>
          /\ frames[ws] # <<>>
                => (frames'[ws] # <<>> /\ frames'[ws][1] = frames[ws][1])]_vars

\* a subscriber holds a snapshot naming a peer that has since left the
\* registry or counted more samples
C7_Witness ==
    \E ws \in WsIds :
        /\ frames[ws] # <<>>
        /\ \E i \in DOMAIN frames[ws][1].peers :
              LET e == frames[ws][1].peers[i] IN
              /\ e.count >= 1
              /\ \/ e.peerId \notin Range(peers)
                 \/ peer[e.peerId].samples_received > e.count

\* -------------------------------------------------------------------------
Attempt == {"sent", "refused"}
Failure == {"refused", "lost"}

\* C8 as stated: once a delivery to a subscriber has failed, no publish made
\* after that failure attempts delivery to that subscriber.
C8_NoAttemptAfterFailure ==
    \A ws \in WsIds : \A i, j \in DOMAIN log[ws] :
        (i < j /\ log[ws][i].what \in Failure /\ log[ws][j].what \in Attempt)
            => log[ws][j].n <= log[ws][i].at

\* C8 as amended: once the publish in which a delivery to a subscriber failed
\* has finished its delivery loop and discarded that subscriber, no publish
\* made after that attempts delivery to it.
C8_NoAttemptAfterPrune ==
    \A ws \in WsIds : \A i, j \in DOMAIN log[ws] :
        (i < j /\ log[ws][i].what = "pruned" /\ log[ws][j].what \in Attempt)
            => log[ws][j].n <= log[ws][i].at

\* a subscriber was pruned, and a publish made after that ran its whole loop
\* and was delivered to another subscriber
C8_Witness ==
    \E ws, other \in WsIds : \E i \in DOMAIN log[ws] : \E t \in DOMAIN tasks :
        /\ ws # other
        /\ log[ws][i].what = "pruned"
        /\ tasks[t].kind = "broadcast" /\ tasks[t].pc = "done"
        /\ tasks[t].n > log[ws][i].at
        /\ \E j \in DOMAIN log[other] :
              log[other][j].what = "sent" /\ log[other][j].n = tasks[t].n

\* -------------------------------------------------------------------------
\* C9 as stated: the frames written to one subscriber are in the order in
\* which their publishes were made.
C9_PerSubscriberOrder ==
    \A ws \in WsIds : \A i, j \in DOMAIN log[ws] :
        (i < j /\ log[ws][i].what = "sent" /\ log[ws][j].what = "sent")
            => log[ws][i].n < log[ws][j].n

\* -------------------------------------------------------------------------
\* C10 as stated: every event published for a message received on a peer's
\* channel carries that peer's id and the label it registered.
C10_StampedWithPeer ==
    \A t \in DOMAIN tasks :
        tasks[t].kind = "broadcast" =>
            /\ published[tasks[t].n].peerId = tasks[t].peer
            /\ published[tasks[t].n].label = peer[tasks[t].peer].device_label

\* -------------------------------------------------------------------------
\* C11 as stated: every text message handled on a peer's channel publishes
\* exactly one event and no exception leaves the handler; the event carries
\* the decoded fields when the text decodes as JSON and the raw text under
\* "text" when it does not.
C11_TextAlwaysPublished ==
    [][\A p \in PeerIds : \A text \in TextMessages :
          on_message(p, [bin |-> FALSE, data |-> text])
          => /\ raised' = raised
             /\ Len(published') = Len(published) + 1
             /\ LET ev == published'[Len(published')]
                    j  == JsonLoads(text)
                IN  IF j.ok
                    THEN \A k \in DOMAIN j.obj : k \in DOMAIN ev /\ ev[k] = j.obj[k]
                    ELSE ev.text = text]_vars

\* -------------------------------------------------------------------------
TelemetryFields == {"seq", "ts", "ax", "ay", "az", "gx", "gy", "gz"}

\* C12: a binary message shorter than 36 bytes is handled without an
\* exception, publishes one sample event whose telemetry fields are all
\* null, and leaves the registry and the sender's transport as they were:
\* the sender is still registered and its transport open.
C12_ShortFrameHarmless ==
    [][\A p \in PeerIds : \A b \in BinaryMessages :
          (Len(b) < FRAME_LEN /\ on_message(p, [bin |-> TRUE, data |-> b]))
          => /\ raised' = raised
             /\ Len(published') = Len(published) + 1
             /\ LET ev == published'[Len(published')] IN
                /\ ev.kind = "sample"
                /\ ev.peerId = p
                /\ \A f \in TelemetryFields : ev[f] = None
             /\ peers' = peers
             /\ p \in Range(peers')
             /\ peer'[p].pc = "open"]_vars

\* a peer sent a short frame and, after it, a well-formed one that was
\* decoded: the session went on
C12_Witness ==
    \E i, j \in DOMAIN published :
        /\ i < j
        /\ published[i].kind = "sample" /\ published[j].kind = "sample"
        /\ published[i].peerId = published[j].peerId
        /\ published[i].seq = None
        /\ published[j].seq # None
        /\ published[j].count = published[i].count + 1

\* -------------------------------------------------------------------------
\* struct.pack("<BBHdffffff", ...) of decoded values: the encoding that the
\* layout [u8][u8][u16][f64][f32 x6] prescribes
pack(d) ==
    <<d.version[1], d.flags[1], d.seq[1] % 256, d.seq[1] \div 256>>
        \o Reverse(d.ts)
        \o Reverse(d.ax) \o Reverse(d.ay) \o Reverse(d.az)
        \o Reverse(d.gx) \o Reverse(d.gy) \o Reverse(d.gz)

\* one of the six 32-bit fields of the frame holds a signalling NaN
HasSNaN(b) ==
    \E k \in 0..5 : IsSNaN32(Reverse(SubSeq(b, 13 + 4 * k, 16 + 4 * k)))

\* the message of at least 36 bytes is decoded from its first 36 bytes only,
\* the decoded values re-encode to those 36 bytes, and the published event
\* carries the decoded values
RoundTrip(b, ev) ==
    LET head == SubSeq(b, 1, FRAME_LEN)
        d    == decode(b)
    IN  /\ d = decode(head)
        /\ d.version = <<head[1]>> /\ d.flags = <<head[2]>>
        /\ pack(d) = head
        /\ \A f \in TelemetryFields : ev[f] = d[f]

C14_LeftAfterPopAndClose ==
    \A i \in DOMAIN published :
        published[i].kind = "left" =>
            LET p == published[i].peerId IN
            /\ p \notin Range(peers)
            /\ peer[p].taken \in DOMAIN tasks
            /\ peer[p].pc # "open"

C14_CloseThenLeft ==
    \A t \in DOMAIN tasks :
        (tasks[t].pc = "close" /\ tasks'[t].pc # "close")
        => /\ Len(published') = Len(published) + 1
           /\ published'[Len(published')] = [kind |-> "left", peerId |-> tasks[t].peer]
           /\ peer'[tasks[t].peer].pc \in {"closed", "aborted"}
           /\ tasks'[t].pc \in {"send", "done"}
           /\ raised' = raised

C14_RemovalOrder == []C14_LeftAfterPopAndClose /\ [][C14_CloseThenLeft]_vars

\* a removal whose transport close raised has published its "left" event and
\* run to its end
C14_Witness ==
    \E p \in DOMAIN peer :
        /\ peer[p].pc = "aborted"
        /\ peer[p].taken \in DOMAIN tasks
        /\ tasks[peer[p].taken].pc = "done"
        /\ Lefts(p) # {}

\* -------------------------------------------------------------------------
\* C15 as stated: the handler of a state change into failed, closed or
\* disconnected publishes an "ice" event reporting that state and the peer is
\* out of the registry when the handler has ended; the handler of a change
\* into any other state publishes an "ice" event reporting that state and
\* does not remove the peer.
C15_TerminalStateRemoves ==
    \A t \in DOMAIN tasks :
        (tasks[t].kind = "on_ice_state" /\ tasks[t].pc = "done")
        => LET p  == tasks[t].peer
               st == tasks[t].state
           IN  /\ \E i \in DOMAIN published :
                     published[i] = [kind |-> "ice", peerId |-> p, state |-> st]
               /\ st \in IceTerminal => p \notin Range(peers)
               /\ st \notin IceTerminal => peer[p].taken # t

\* -------------------------------------------------------------------------
\* C16 as stated: every task on the loop that forwards an event or handles a
\* removal, whichever handler created it, is in the tracked set from its
\* creation until it has ended.
C16_InFlightIsTracked ==
    \A t \in DOMAIN tasks :
        tasks[t].pc \notin {"done", "cancelled"} => t \in background_tasks

\* -------------------------------------------------------------------------
\* the entries of the given kinds that publish n left in the log of ws
Entries(ws, n, kinds) ==
    {i \in DOMAIN log[ws] : log[ws][i].n = n /\ log[ws][i].what \in kinds}

\* For every publish and every subscriber, delivery is attempted at most
\* once, and only to a subscriber that was in the set when the delivery loop
\* started; every subscriber the loop started with gets its attempt,
\* whatever happened to the attempts before it, unless the loop is still
\* running or, where cut is allowed, shutdown has started and the task was
\* cancelled inside the loop.
OnceToEachDue(cut) ==
    \A n \in DOMAIN published : \A ws \in WsIds :
        LET due == Entries(ws, n, {"due"})
            att == Entries(ws, n, Attempt)
        IN  /\ Cardinality(due) <= 1
            /\ Cardinality(att) <= 1
            /\ \A i \in att : \E d \in due : d < i
            /\ (due # {} /\ att = {})
                  => \E t \in DOMAIN tasks :
                        /\ tasks[t].n = n
                        /\ ws \in Range(tasks[t].todo)
                        /\ tasks[t].pc = "send" \/ (cut /\ sd.pc # "idle")

\* a publish discards subscribers only when its delivery loop is over: while
\* it waits for a delivery it has discarded nobody, the delivery it waits for
\* is logged, and the subscribers after it have not been attempted
PruneAfterLoop ==
    \A t \in DOMAIN tasks :
        tasks[t].pc = "send"
            => /\ \A ws \in WsIds : Entries(ws, tasks[t].n, {"pruned"}) = {}
               /\ Entries(Head(tasks[t].todo), tasks[t].n, {"sent"}) # {}
               /\ \A ws \in Range(Tail(tasks[t].todo)) :
                     Entries(ws, tasks[t].n, Attempt) = {}

\* C17 as stated: within one publish, delivery is attempted exactly once to
\* every subscriber that was in the set when the delivery loop started; a
\* failed delivery neither stops nor alters the later attempts and is not
\* retried; failed subscribers are discarded only after the loop.
C17_ExactlyOnceToEachDue == OnceToEachDue(FALSE) /\ PruneAfterLoop

\* C17 as amended: the same, except that a publish whose task shutdown
\* cancels while it waits for a delivery ends there: the subscribers after
\* that one get no attempt and the publish discards nobody.
C17_DeliveryLoop == OnceToEachDue(TRUE) /\ PruneAfterLoop

\* in one publish the delivery to one subscriber failed, the delivery to
\* another one was made after it, and the failed one was discarded
C17_Witness ==
    \E n \in DOMAIN published : \E ws, other \in WsIds :
        /\ ws # other
        /\ Entries(ws, n, {"refused", "lost"}) # {}
        /\ Entries(other, n, {"sent"}) # {}
        /\ Entries(ws, n, {"pruned"}) # {}
        /\ \E t \in DOMAIN tasks :
              /\ tasks[t].n = n /\ tasks[t].pc = "done"
              /\ \E i \in DOMAIN dashboards :
                    dashboards[i] = other

\* -------------------------------------------------------------------------
\* the sample events published for peer p among the first i publishes
SamplesUpTo(p, i) ==
    {j \in 1..i : published[j].kind = "sample" /\ published[j].peerId = p}

\* C18: the sample events of a peer are numbered 1, 2, 3, ... in the order
\* of their publication and the peer's counter is the number of them; a
\* peer is created with the counter at 0; the counter changes only in the
\* handling of a binary message, which raises it by exactly one, whether the
\* message is a well-formed frame or not.
C18_CountIsRank ==
    /\ \A i \in DOMAIN published :
          published[i].kind = "sample"
             => published[i].count = Cardinality(SamplesUpTo(published[i].peerId, i))
    /\ \A p \in DOMAIN peer :
          peer[p].samples_received = Cardinality(SamplesUpTo(p, Len(published)))

C18_CounterSteps ==
    /\ \A p \in DOMAIN peer' :
          p \notin DOMAIN peer => peer'[p].samples_received = 0
    /\ \A p \in DOMAIN peer :
          /\ peer'[p].samples_received >= peer[p].samples_received
          /\ peer'[p].samples_received # peer[p].samples_received
                => \E b \in BinaryMessages : on_message(p, [bin |-> TRUE, data |-> b])
          /\ \A b \in BinaryMessages :
                on_message(p, [bin |-> TRUE, data |-> b])
                   => peer'[p].samples_received = peer[p].samples_received + 1
          /\ \A text \in TextMessages :
                on_message(p, [bin |-> FALSE, data |-> text])
                   => peer'[p].samples_received = peer[p].samples_received

C18_SampleCounter == []C18_CountIsRank /\ [][C18_CounterSteps]_vars

\* the second binary message of a peer was a well-formed frame: its sample
\* event carries count 2, which is the peer's counter
C18_Witness ==
    \E i \in DOMAIN published :
        /\ published[i].kind = "sample"
        /\ published[i].count = 2
        /\ published[i].seq # None
        /\ peer[published[i].peerId].samples_received = 2

C20_NothingAfterLeft ==
    \A ws \in WsIds :
        (sock[ws].conn = "open" /\ waitq[ws] = <<>>)
        => \A i, j \in DOMAIN frames[ws] :
              (i < j /\ frames[ws][i].kind = "left" /\ frames[ws][j].kind # "snapshot")
                 => frames[ws][j].peerId # frames[ws][i].peerId

\* -------------------------------------------------------------------------
\* C21 as stated: a connection whose ws_dashboard handler has ended, for
\* whatever reason, is not in the subscriber set.
C21_EndedHandlerNotSubscribed ==
    \A ws \in WsIds : sock[ws].pc = "ended" => ws \notin Range(dashboards)

=============================================================================
